---- MODULE Spec2Model ----
(***************************************************************************)
(* canvas-smith frontend: the Button component (Button.vue) and the page   *)
(* that probes the backend (testBackendConnection / onMounted) and binds   *)
(* its Test button to the probe.                                           *)
(*                                                                         *)
(* Specifications sharing the state:                                       *)
(*   SpecButton  one Button instance whose parent may change `disabled`    *)
(*   SpecProbe   testBackendConnection invoked freely (calls may overlap)  *)
(*   Spec        the composed page: probes start at mount and from the     *)
(*               Test button, whose disabled prop is bound to isLoading    *)
(*   SpecProbeLive  SpecProbe with a transport that settles every request  *)
(*   SpecToast   the layout page's toast (App.vue handleClick / setTimeout) *)
(***************************************************************************)
EXTENDS Integers, Sequences, FiniteSets, TLC

\* ------------------------------------------------------------------ bounds
MaxCalls == 3       \* invocations of testBackendConnection in one behaviour
MaxEmits == 2       \* click notifications recorded for the standalone Button

\* --------------------------------------------------------- value domains
Variants == {"primary", "secondary"}
Sizes == {"sm", "md", "lg"}
Events == {"evtA", "evtB"}                \* MouseEvent objects handed to handleClick

Undefined == "<undefined>"                \* JavaScript undefined (absent property)
StatusLabels == {"ok"}                    \* values a body gives backend_status
Messages == {"ready", "busy"}             \* values a body gives message
HttpStatuses == {200, 201, 404, 500}      \* status codes a response may carry

\* Parsed JSON bodies response.json() may resolve with: an object with each of
\* the two fields present or absent, the JSON value null, or a JSON number.
JsonObjects ==
    [kind : {"object"},
     backend_status : StatusLabels \cup {Undefined},
     message : Messages \cup {Undefined}]
JsonNull == [kind |-> "null", backend_status |-> Undefined, message |-> Undefined]
JsonNumber == [kind |-> "number", backend_status |-> Undefined, message |-> Undefined]
JsonValues == JsonObjects \cup {JsonNull, JsonNumber}

NoData == [kind |-> "none", backend_status |-> Undefined, message |-> Undefined]

VARIABLES
    \* Button.vue
    variant, size, disabled,    \* props
    isHovered, isPressed,       \* refs
    emitted,                    \* click notifications emitted so far, in order
    lastOp,                     \* the last handler run and the state it saw
    \* page
    backendStatus, backendMessage, isConnected, isLoading,   \* refs
    mounted,                    \* onMounted has run
    calls,                      \* invocations of testBackendConnection, by issue order
    fetches,                    \* GET requests issued
    settled,                    \* ids of the calls that settled, in completion order
    lastSettled,                \* what the call that settled last received
    \* App.vue
    showToast,                  \* ref
    timers,                     \* pending setTimeout callbacks, oldest first
    toastClicks,                \* clicks on the cta button so far
    toastShownBy,               \* the click that showed the visible toast, 0 if none
    lastToastOp                 \* the last toast step and the state it saw

buttonVars == <<variant, size, disabled, isHovered, isPressed, emitted>>
pageVars == <<backendStatus, backendMessage, isConnected, isLoading,
              mounted, calls, fetches, settled, lastSettled>>
vars == <<variant, size, disabled, isHovered, isPressed, emitted, lastOp,
          backendStatus, backendMessage, isConnected, isLoading,
          mounted, calls, fetches, settled, lastSettled,
          showToast, timers, toastClicks, toastShownBy, lastToastOp>>

toastVars == <<showToast, timers, toastClicks, toastShownBy, lastToastOp>>

Shown == <<backendStatus, backendMessage, isConnected>>

\* ------------------------------------------------------------ Button.vue
\* What a handler saw when it started.
Pre == [disabled |-> disabled, hovered |-> isHovered, pressed |-> isPressed,
        emitted |-> emitted, nCalls |-> Len(calls)]

Op(name, event) == [op |-> name, evt |-> event, pre |-> Pre]

\* @mouseenter="isHovered = true"
onMouseEnter ==
    /\ isHovered' = TRUE
    /\ lastOp' = Op("mouseenter", "none")
    /\ UNCHANGED <<variant, size, isPressed, emitted>>

\* @mousedown="isPressed = true"
onMouseDown ==
    /\ isPressed' = TRUE
    /\ lastOp' = Op("mousedown", "none")
    /\ UNCHANGED <<variant, size, isHovered, emitted>>

\* @mouseup="isPressed = false"
onMouseUp ==
    /\ isPressed' = FALSE
    /\ lastOp' = Op("mouseup", "none")
    /\ UNCHANGED <<variant, size, isHovered, emitted>>

handleMouseLeaveKeepsPressed ==
    /\ isHovered' = FALSE
    /\ lastOp' = Op("mouseleave", "none")
    /\ UNCHANGED <<variant, size, isPressed, emitted>>

handleMouseLeave ==
    /\ isHovered' = FALSE
    /\ isPressed' = FALSE
    /\ lastOp' = Op("mouseleave", "none")
    /\ UNCHANGED <<variant, size, emitted>>

handleClickReleases(event) ==
    /\ emitted' = IF ~disabled THEN Append(emitted, event) ELSE emitted
    /\ isPressed' = FALSE
    /\ lastOp' = Op("click", event)
    /\ UNCHANGED <<variant, size, isHovered>>

handleClickUnguarded(event) ==
    /\ emitted' = Append(emitted, event)
    /\ lastOp' = Op("click", event)
    /\ UNCHANGED <<variant, size, isHovered, isPressed>>

handleClick(event) ==
    /\ emitted' = IF ~disabled THEN Append(emitted, event) ELSE emitted
    /\ lastOp' = Op("click", event)
    /\ UNCHANGED <<variant, size, isHovered, isPressed>>

\* A falsy array element (`cond && 'tag'` with cond false), dropped by
\* .filter(Boolean).
Falsy == ""

When(cond, tag) == IF cond THEN tag ELSE Falsy

baseClasses ==
    <<"inline-flex", "items-center", "justify-center", "font-medium",
      "transition-all", "duration-300", "ease-out", "outline-none",
      "select-none", "relative", "overflow-hidden">>

sizeClasses(s, hovered) ==
    CASE s = "sm" -> <<"w-20", "h-8", "text-xs",
                       IF hovered THEN "rounded-md" ELSE "rounded-xl">>
      [] s = "md" -> <<"w-30", "h-10", "text-sm",
                       IF hovered THEN "rounded-lg" ELSE "rounded-2xl">>
      [] s = "lg" -> <<"w-40", "h-12", "text-base",
                       IF hovered THEN "rounded-xl" ELSE "rounded-3xl">>

variantClasses(v, d, hovered, pressed) ==
    CASE v = "primary" ->
            <<IF d THEN "bg-gray-300 text-gray-500 cursor-not-allowed"
                   ELSE "bg-canvas-accent text-white cursor-pointer",
              When(~d /\ hovered, "shadow-lg shadow-canvas-accent/30"),
              When(~d /\ pressed, "scale-95"),
              When(~d /\ hovered /\ ~pressed, "scale-102 -translate-y-0.5")>>
      [] v = "secondary" ->
            <<IF d THEN "bg-gray-100 text-gray-400 border border-gray-200 cursor-not-allowed"
                   ELSE "bg-canvas-surface text-canvas-text border border-gray-200 cursor-pointer hover:border-gray-300",
              When(~d /\ hovered, "shadow-lg shadow-black/10"),
              When(~d /\ pressed, "scale-95"),
              When(~d /\ hovered /\ ~pressed, "scale-101 -translate-y-0.5")>>

Truthy(tag) == tag # Falsy

\* [...baseClasses, ...sizeClasses[size], ...variantClasses[variant]].filter(Boolean)
buttonClassesOf(v, s, d, hovered, pressed) ==
    SelectSeq(baseClasses \o sizeClasses(s, hovered) \o variantClasses(v, d, hovered, pressed),
              Truthy)

\* The computed class list of the Button in its current state.
buttonClasses == buttonClassesOf(variant, size, disabled, isHovered, isPressed)

\* ------------------------------------------------------------------ page
InFlight == {c \in 1..Len(calls) : calls[c].pc # "done"}

Done == [pc |-> "done", status |-> 0, shown |-> <<>>]

\* catch block: every failure is collapsed to one state
CatchFailure ==
    /\ backendStatus' = "disconnected"
    /\ backendMessage' = "Failed to connect to backend"
    /\ isConnected' = FALSE

\* finally block, and the end of the async function
Finally(c, outcome) ==
    /\ isLoading' = FALSE
    /\ calls' = [calls EXCEPT ![c] = Done]
    /\ settled' = Append(settled, c)
    /\ lastSettled' = outcome
    /\ UNCHANGED <<mounted, fetches>>

\* What the transport handed to a call at the step it settled.
Outcome(c, event, status, data) ==
    [id |-> c, event |-> event, status |-> status, data |-> data]

NoOutcome == Outcome(0, "none", 0, NoData)

testBackendConnectionNoLoading ==
    /\ Len(calls) < MaxCalls
    /\ calls' = Append(calls, [pc |-> "fetch", status |-> 0, shown |-> Shown])
    /\ fetches' = fetches + 1
    /\ UNCHANGED <<isLoading, backendStatus, backendMessage, isConnected,
                   settled, lastSettled>>

testBackendConnectionResets ==
    /\ Len(calls) < MaxCalls
    /\ isLoading' = TRUE
    /\ backendStatus' = "checking..."
    /\ backendMessage' = "Connecting to backend..."
    /\ calls' = Append(calls, [pc |-> "fetch", status |-> 0, shown |-> Shown])
    /\ fetches' = fetches + 1
    /\ UNCHANGED <<isConnected, settled, lastSettled>>

\* testBackendConnection up to its first await: isLoading.value = true, then
\* the GET is issued.
testBackendConnection ==
    /\ Len(calls) < MaxCalls
    /\ isLoading' = TRUE
    /\ calls' = Append(calls, [pc |-> "fetch", status |-> 0, shown |-> Shown])
    /\ fetches' = fetches + 1
    /\ UNCHANGED <<backendStatus, backendMessage, isConnected,
                   settled, lastSettled>>

Rejected == [pc |-> "rejected", status |-> 0, shown |-> <<>>]

FetchRejectedRetries(c) ==
    /\ c \in InFlight /\ calls[c].pc = "fetch"
    /\ CatchFailure
    /\ fetches' = fetches + 1
    /\ UNCHANGED <<isLoading, mounted, calls, settled, lastSettled>>

FetchRejectedPropagates(c) ==
    /\ c \in InFlight /\ calls[c].pc = "fetch"
    /\ isLoading' = FALSE
    /\ calls' = [calls EXCEPT ![c] = Rejected]
    /\ settled' = Append(settled, c)
    /\ lastSettled' = Outcome(c, "fetch_rejected", 0, NoData)
    /\ UNCHANGED <<backendStatus, backendMessage, isConnected, mounted, fetches>>

\* fetch rejects (timeout, DNS, connection refused): catch, finally.
FetchRejected(c) ==
    /\ c \in InFlight /\ calls[c].pc = "fetch"
    /\ CatchFailure
    /\ Finally(c, Outcome(c, "fetch_rejected", 0, NoData))

ResponseOk(status) == status >= 200 /\ status <= 299

FetchResolvedSurfacesStatus(c, status) ==
    /\ c \in InFlight /\ calls[c].pc = "fetch"
    /\ IF ResponseOk(status)
       THEN /\ calls' = [calls EXCEPT ![c].pc = "json", ![c].status = status]
            /\ UNCHANGED <<backendStatus, backendMessage, isConnected, isLoading,
                           mounted, fetches, settled, lastSettled>>
       ELSE /\ backendStatus' = "disconnected"
            /\ backendMessage' = IF status = 404 THEN "HTTP 404" ELSE "HTTP 500"
            /\ isConnected' = FALSE
            /\ Finally(c, Outcome(c, "response", status, NoData))

\* fetch resolves with a response: response.ok leads to await response.json(),
\* anything else throws Error(`HTTP ${status}`) into the catch block.
FetchResolved(c, status) ==
    /\ c \in InFlight /\ calls[c].pc = "fetch"
    /\ IF ResponseOk(status)
       THEN /\ calls' = [calls EXCEPT ![c].pc = "json", ![c].status = status]
            /\ UNCHANGED <<backendStatus, backendMessage, isConnected, isLoading,
                           mounted, fetches, settled, lastSettled>>
       ELSE /\ CatchFailure
            /\ Finally(c, Outcome(c, "response", status, NoData))

JsonRejectedAwaitsAgain(c) ==
    /\ c \in InFlight /\ calls[c].pc = "json"
    /\ CatchFailure
    /\ calls' = [calls EXCEPT ![c].pc = "fetch", ![c].status = 0]
    /\ UNCHANGED <<isLoading, mounted, fetches, settled, lastSettled>>

\* response.json() rejects (the body is not JSON): catch, finally.
JsonRejected(c) ==
    /\ c \in InFlight /\ calls[c].pc = "json"
    /\ CatchFailure
    /\ Finally(c, Outcome(c, "json_rejected", calls[c].status, NoData))

JsonResolvedSwapsFields(c, data) ==
    /\ c \in InFlight /\ calls[c].pc = "json"
    /\ IF data.kind = "null"
       THEN /\ CatchFailure
            /\ Finally(c, Outcome(c, "json_resolved", calls[c].status, data))
       ELSE /\ backendStatus' = data.message
            /\ backendMessage' = data.backend_status
            /\ isConnected' = TRUE
            /\ Finally(c, Outcome(c, "json_resolved", calls[c].status, data))

JsonResolvedLatestOnly(c, data) ==
    /\ c \in InFlight /\ calls[c].pc = "json"
    /\ IF data.kind = "null"
       THEN /\ CatchFailure
            /\ Finally(c, Outcome(c, "json_resolved", calls[c].status, data))
       ELSE /\ IF c = Len(calls)
               THEN /\ backendStatus' = data.backend_status
                    /\ backendMessage' = data.message
                    /\ isConnected' = TRUE
               ELSE UNCHANGED <<backendStatus, backendMessage, isConnected>>
            /\ Finally(c, Outcome(c, "json_resolved", calls[c].status, data))

\* response.json() resolves with data. Reading a property of null throws a
\* TypeError before anything is assigned; a property an object (or a number)
\* does not have reads as undefined and is assigned as such.
JsonResolved(c, data) ==
    /\ c \in InFlight /\ calls[c].pc = "json"
    /\ IF data.kind = "null"
       THEN /\ CatchFailure
            /\ Finally(c, Outcome(c, "json_resolved", calls[c].status, data))
       ELSE /\ backendStatus' = data.backend_status
            /\ backendMessage' = data.message
            /\ isConnected' = TRUE
            /\ Finally(c, Outcome(c, "json_resolved", calls[c].status, data))

\* -------------------------------------------------------- initial states
InitRefs ==
    /\ isHovered = FALSE
    /\ isPressed = FALSE
    /\ emitted = <<>>
    /\ lastOp = [op |-> "none", evt |-> "none",
                 pre |-> [disabled |-> disabled, hovered |-> FALSE, pressed |-> FALSE,
                          emitted |-> <<>>, nCalls |-> 0]]
    /\ backendStatus = "checking..."
    /\ backendMessage = "Connecting to backend..."
    /\ isConnected = FALSE
    /\ isLoading = TRUE
    /\ mounted = FALSE
    /\ calls = <<>>
    /\ fetches = 0
    /\ settled = <<>>
    /\ lastSettled = NoOutcome
    /\ showToast = FALSE
    /\ timers = <<>>
    /\ toastClicks = 0
    /\ toastShownBy = 0
    /\ lastToastOp = [op |-> "none", timer |-> 0, wasShown |-> FALSE, shownBy |-> 0]

\* A Button constructed with any props.
InitButton ==
    /\ variant \in Variants
    /\ size \in Sizes
    /\ disabled \in BOOLEAN
    /\ InitRefs

NeverDisabled(loading) == FALSE

\* <Button variant="primary" size="md" @click="testBackendConnection"
\*         :disabled="isLoading">
TestButtonDisabled(loading) == loading

Init ==
    /\ variant = "primary"
    /\ size = "md"
    /\ disabled = TestButtonDisabled(TRUE)
    /\ InitRefs

\* ---------------------------------------------------- SpecButton actions
\* The parent re-renders with another value for the disabled prop.
SetDisabled(b) ==
    /\ disabled' = b
    /\ lastOp' = Op("props", "none")
    /\ UNCHANGED <<variant, size, isHovered, isPressed, emitted>>
    /\ UNCHANGED pageVars
    /\ UNCHANGED toastVars

PointerEnter == onMouseEnter /\ UNCHANGED disabled /\ UNCHANGED pageVars /\ UNCHANGED toastVars
PointerLeave == handleMouseLeave /\ UNCHANGED disabled /\ UNCHANGED pageVars /\ UNCHANGED toastVars
PointerDown == onMouseDown /\ UNCHANGED disabled /\ UNCHANGED pageVars /\ UNCHANGED toastVars
PointerUp == onMouseUp /\ UNCHANGED disabled /\ UNCHANGED pageVars /\ UNCHANGED toastVars

Activate(event) ==
    /\ disabled \/ Len(emitted) < MaxEmits
    /\ handleClick(event)
    /\ UNCHANGED disabled
    /\ UNCHANGED pageVars
    /\ UNCHANGED toastVars

NextButton ==
    \/ PointerEnter
    \/ PointerLeave
    \/ PointerDown
    \/ PointerUp
    \/ \E e \in Events : Activate(e)
    \/ \E b \in BOOLEAN : SetDisabled(b)

SpecButton == InitButton /\ [][NextButton]_vars

\* ----------------------------------------------------- SpecProbe actions
Check ==
    /\ testBackendConnection
    /\ UNCHANGED mounted
    /\ UNCHANGED <<buttonVars, lastOp>>
    /\ UNCHANGED toastVars

ProbeFetchRejected(c) == FetchRejected(c) /\ UNCHANGED <<buttonVars, lastOp>> /\ UNCHANGED toastVars
ProbeFetchResolved(c, s) == FetchResolved(c, s) /\ UNCHANGED <<buttonVars, lastOp>> /\ UNCHANGED toastVars
ProbeJsonRejected(c) == JsonRejected(c) /\ UNCHANGED <<buttonVars, lastOp>> /\ UNCHANGED toastVars
ProbeJsonResolved(c, d) == JsonResolved(c, d) /\ UNCHANGED <<buttonVars, lastOp>> /\ UNCHANGED toastVars

NextProbe ==
    \/ Check
    \/ \E c \in 1..MaxCalls : ProbeFetchRejected(c)
    \/ \E c \in 1..MaxCalls, s \in HttpStatuses : ProbeFetchResolved(c, s)
    \/ \E c \in 1..MaxCalls : ProbeJsonRejected(c)
    \/ \E c \in 1..MaxCalls, d \in JsonValues : ProbeJsonResolved(c, d)

SpecProbe == Init /\ [][NextProbe]_vars

\* The transport eventually resolves or rejects every request, and every body
\* read eventually ends.
FetchSettles(c) ==
    \/ ProbeFetchRejected(c)
    \/ \E s \in HttpStatuses : ProbeFetchResolved(c, s)

JsonSettles(c) ==
    \/ ProbeJsonRejected(c)
    \/ \E d \in JsonValues : ProbeJsonResolved(c, d)

TransportFair ==
    \A c \in 1..MaxCalls : WF_vars(FetchSettles(c)) /\ WF_vars(JsonSettles(c))

SpecProbeLive == SpecProbe /\ TransportFair

\* ------------------------------------------------- composed page actions
\* The page re-renders after every change of isLoading, before the next
\* event is handled: the Test button's disabled prop follows isLoading.
Rendered ==
    /\ disabled' = TestButtonDisabled(isLoading')
    /\ UNCHANGED <<variant, size, isHovered, isPressed, emitted, lastOp>>
    /\ UNCHANGED toastVars

\* onMounted(() => { testBackendConnection() })
onMounted ==
    /\ ~mounted
    /\ mounted' = TRUE
    /\ testBackendConnection
    /\ disabled' = TestButtonDisabled(isLoading')
    /\ lastOp' = Op("mount", "none")
    /\ UNCHANGED <<variant, size, isHovered, isPressed, emitted>>
    /\ UNCHANGED toastVars

\* The Test button receives events once the page is mounted. A click runs
\* handleClick, and when that emits, the listener testBackendConnection runs
\* up to its first await.
TestButtonClick(event) ==
    /\ mounted
    /\ handleClick(event)
    /\ IF emitted' # emitted
       THEN testBackendConnection /\ UNCHANGED mounted
       ELSE UNCHANGED pageVars
    /\ disabled' = TestButtonDisabled(isLoading')
    /\ UNCHANGED toastVars

TestButtonEnter == mounted /\ onMouseEnter /\ UNCHANGED disabled /\ UNCHANGED pageVars /\ UNCHANGED toastVars
TestButtonLeave == mounted /\ handleMouseLeave /\ UNCHANGED disabled /\ UNCHANGED pageVars /\ UNCHANGED toastVars
TestButtonDown == mounted /\ onMouseDown /\ UNCHANGED disabled /\ UNCHANGED pageVars /\ UNCHANGED toastVars
TestButtonUp == mounted /\ onMouseUp /\ UNCHANGED disabled /\ UNCHANGED pageVars /\ UNCHANGED toastVars

PageFetchRejected(c) == FetchRejected(c) /\ Rendered
PageFetchResolved(c, s) == FetchResolved(c, s) /\ Rendered
PageJsonRejected(c) == JsonRejected(c) /\ Rendered
PageJsonResolved(c, d) == JsonResolved(c, d) /\ Rendered

Next ==
    \/ onMounted
    \/ \E e \in Events : TestButtonClick(e)
    \/ TestButtonEnter
    \/ TestButtonLeave
    \/ TestButtonDown
    \/ TestButtonUp
    \/ \E c \in 1..MaxCalls : PageFetchRejected(c)
    \/ \E c \in 1..MaxCalls, s \in HttpStatuses : PageFetchResolved(c, s)
    \/ \E c \in 1..MaxCalls : PageJsonRejected(c)
    \/ \E c \in 1..MaxCalls, d \in JsonValues : PageJsonResolved(c, d)

Spec == Init /\ [][Next]_vars

\* ------------------------------------------------------ App.vue toast
MaxToastClicks == 9     \* clicks on the cta button in one behaviour

ToastOp(name, timer) ==
    [op |-> name, timer |-> timer, wasShown |-> showToast, shownBy |-> toastShownBy]

\* App.vue handleClick: toggle showToast, and when it is now shown, start a
\* 1500 ms timer that hides it. Earlier timers are left running.
handleToastClick ==
    /\ toastClicks < MaxToastClicks
    /\ toastClicks' = toastClicks + 1
    /\ showToast' = ~showToast
    /\ IF showToast'
       THEN /\ timers' = Append(timers, toastClicks')
            /\ toastShownBy' = toastClicks'
       ELSE /\ timers' = timers
            /\ toastShownBy' = 0
    /\ lastToastOp' = ToastOp("click", 0)

\* The oldest pending timer expires (equal delays expire in creation order):
\* showToast.value = false.
toastTimeout ==
    /\ timers # <<>>
    /\ showToast' = FALSE
    /\ timers' = Tail(timers)
    /\ toastShownBy' = 0
    /\ lastToastOp' = ToastOp("timer", Head(timers))
    /\ UNCHANGED toastClicks

ToastClick == handleToastClick /\ UNCHANGED <<buttonVars, lastOp, pageVars>>
ToastTimerFires == toastTimeout /\ UNCHANGED <<buttonVars, lastOp, pageVars>>

NextToast ==
    \/ ToastClick
    \/ ToastTimerFires

SpecToast == Init /\ [][NextToast]_vars

\* ================================================================ claims
Disconnected == <<"disconnected", "Failed to connect to backend", FALSE>>

\* Both fields of the expected body {backend_status, message} are present.
HasBothFields(data) ==
    /\ data.kind = "object"
    /\ data.backend_status # Undefined
    /\ data.message # Undefined

\* C1 (SpecButton): handleClick emits a click notification if and only if
\* disabled was false when it was called; when it emits, it adds exactly one
\* notification, carrying the event it was given, and when disabled was true
\* the notifications are what they were.
C1_EmitsIffEnabled ==
    lastOp.op = "click" =>
        emitted = IF lastOp.pre.disabled
                  THEN lastOp.pre.emitted
                  ELSE Append(lastOp.pre.emitted, lastOp.evt)

\* A click was suppressed on a disabled Button that had emitted before.
C1_Witness ==
    /\ lastOp.op = "click"
    /\ lastOp.pre.disabled
    /\ lastOp.evt = "evtB"
    /\ emitted = <<"evtA">>

\* C2 (SpecButton), as claimed: in every reachable state, disabled = true
\* implies hovered = false and pressed = false.
C2_DisabledForcesIdle ==
    disabled => (~isHovered /\ ~isPressed)

\* C3 (SpecButton): right after handleMouseLeave, hovered and pressed are both
\* false, whatever they were before and whatever disabled is.
C3_LeaveClearsHoverAndPress ==
    lastOp.op = "mouseleave" => (~isHovered /\ ~isPressed)

\* The pointer left a disabled Button that was hovered and pressed.
C3_Witness ==
    /\ lastOp.op = "mouseleave"
    /\ lastOp.pre.hovered
    /\ lastOp.pre.pressed
    /\ disabled
    /\ ~isHovered
    /\ ~isPressed

\* C4 (Spec), as claimed: while a call is in flight, the displayed status and
\* message are the checking values.
C4_CheckingWhileInFlight ==
    InFlight # {} =>
        /\ backendStatus = "checking..."
        /\ backendMessage = "Connecting to backend..."

\* C4 (Spec), amended: the step that issues a call sets isLoading to true and
\* leaves the displayed status, message and isConnected as they were; the
\* status and message are the checking values until the first call settles.
C4_LoadingSetBeforeRequest ==
    /\ [](settled = <<>> =>
            /\ backendStatus = "checking..."
            /\ backendMessage = "Connecting to backend...")
    /\ [][Len(calls') > Len(calls) =>
            /\ isLoading'
            /\ fetches' = fetches + 1
            /\ Shown' = Shown]_vars

\* A re-invocation is in flight, isLoading is true and the previous result is
\* still displayed.
C4_Witness ==
    /\ Len(calls) = 2
    /\ 2 \in InFlight
    /\ isLoading
    /\ backendStatus = "ok"
    /\ backendMessage = "ready"

\* C5 (Spec), as claimed: when the call that settled last received a 2xx
\* response whose body parsed but lacks backend_status or message, the state is
\* disconnected, "Failed to connect to backend", isConnected = false.
C5_WrongShapeIsFailure ==
    ( /\ lastSettled.event = "json_resolved"
      /\ ResponseOk(lastSettled.status)
      /\ ~HasBothFields(lastSettled.data) ) => Shown = Disconnected

\* C6 (Spec): when the call that settled last received a 2xx response whose
\* body has backend_status and message, isConnected is true, backendMessage is
\* the body's message and backendStatus the body's backend_status.
C6_SuccessIsConnected ==
    ( /\ lastSettled.event = "json_resolved"
      /\ ResponseOk(lastSettled.status)
      /\ HasBothFields(lastSettled.data) ) =>
        /\ isConnected
        /\ backendMessage = lastSettled.data.message
        /\ backendStatus = lastSettled.data.backend_status

\* A 201 response with a complete body was applied.
C6_Witness ==
    /\ lastSettled.event = "json_resolved"
    /\ lastSettled.status = 201
    /\ lastSettled.data = [kind |-> "object", backend_status |-> "ok", message |-> "busy"]
    /\ Shown = <<"ok", "busy", TRUE>>

\* The call ran the catch block: a rejected fetch, a response that is not
\* 2xx (throw new Error), a body that does not parse, or a body that parses to
\* null (TypeError on reading data.backend_status).
IsFailure(outcome) ==
    \/ outcome.event = "fetch_rejected"
    \/ outcome.event = "response" /\ ~ResponseOk(outcome.status)
    \/ outcome.event = "json_rejected"
    \/ outcome.event = "json_resolved" /\ outcome.data.kind = "null"

\* C7 (Spec): whichever failure the call that settled last met (rejected
\* fetch, non-2xx status of any code, unparseable body, null body), the state is the same:
\* disconnected, "Failed to connect to backend", isConnected = false.
C7_FailuresCollapse ==
    IsFailure(lastSettled) => Shown = Disconnected

\* A 404 settled a re-invocation after an earlier call, and reads as any
\* other failure.
C7_Witness ==
    /\ Len(settled) = 2
    /\ lastSettled.event = "response"
    /\ lastSettled.status = 404
    /\ Shown = Disconnected

\* What a settled call leaves displayed.
ResultOf(outcome) ==
    IF outcome.event = "json_resolved" /\ outcome.data.kind # "null"
    THEN <<outcome.data.backend_status, outcome.data.message, TRUE>>
    ELSE Disconnected

\* C8 (SpecProbe): calls are neither deduplicated nor cancelled. Each issued
\* call has its own request, each settles once, and what is displayed is the
\* result of the call that settled last, whichever was issued first.
C8_LastSettledWins ==
    /\ fetches = Len(calls)
    /\ \A i, j \in 1..Len(settled) : settled[i] = settled[j] => i = j
    /\ \A c \in 1..Len(calls) : c \in InFlight <=> ~(\E i \in 1..Len(settled) : settled[i] = c)
    /\ settled # <<>> =>
        /\ lastSettled.id = settled[Len(settled)]
        /\ Shown = ResultOf(lastSettled)

\* Two calls overlapped; the one issued second failed first, the one issued
\* first succeeded last, and its result is displayed.
C8_Witness ==
    /\ settled = <<2, 1>>
    /\ InFlight = {}
    /\ lastSettled.id = 1
    /\ Shown = <<"ok", "ready", TRUE>>

\* C9 (Spec): while a call is in flight the displayed status, message and
\* isConnected are those of the moment it was issued; they change only in a
\* step in which a call settles.
C9_ResultKeptWhileInFlight ==
    /\ [](\A c \in InFlight : Shown = calls[c].shown)
    /\ [][Shown' # Shown => Len(settled') = Len(settled) + 1]_vars

\* A re-invocation awaits its body while the previous result is displayed.
C9_Witness ==
    /\ Len(calls) = 2
    /\ 2 \in InFlight
    /\ calls[2].pc = "json"
    /\ calls[2].shown = <<"ok", "busy", TRUE>>
    /\ Shown = <<"ok", "busy", TRUE>>

\* C10 (Spec): the Test button is disabled exactly while isLoading is true,
\* which after mount is exactly while a probe is in flight; a click on it
\* while disabled starts no probe and a click while enabled starts exactly
\* one; at most one probe is in flight.
C10_OneProbeAtATime ==
    /\ disabled = isLoading
    /\ mounted => (isLoading <=> InFlight # {})
    /\ Cardinality(InFlight) <= 1
    /\ lastOp.op = "click" =>
        Len(calls) = lastOp.pre.nCalls + (IF lastOp.pre.disabled THEN 0 ELSE 1)

\* The second probe, started from the button, is in flight, and a click made
\* meanwhile started nothing.
C10_Witness ==
    /\ Len(calls) = 2
    /\ InFlight = {2}
    /\ lastOp.op = "click"
    /\ lastOp.pre.disabled
    /\ lastOp.pre.nCalls = 2
    /\ emitted = <<"evtA">>


\* Call c has settled.
HasSettled(c) == \E i \in 1..Len(settled) : settled[i] = c

\* C11 (SpecProbeLive): every issued call eventually settles, and the step in
\* which a call settles applies its outcome and leaves isLoading false, on the
\* success path and on every failure path.
C11_EveryCheckSettles ==
    /\ \A c \in 1..MaxCalls : (c \in InFlight) ~> (HasSettled(c) /\ calls[c].pc = "done")
    /\ [][Len(settled') > Len(settled) =>
            /\ ~isLoading'
            /\ lastSettled'.id = settled'[Len(settled')]
            /\ Shown' = ResultOf(lastSettled')]_vars

\* Three overlapping calls have all settled, the last one by a failure.
C11_Witness ==
    /\ Len(calls) = 3
    /\ InFlight = {}
    /\ \A c \in 1..3 : HasSettled(c)
    /\ IsFailure(lastSettled)
    /\ ~isLoading

\* C12 (Spec): the probe never retries on its own. The requests issued are as
\* many as the invocations, which are one for the mount plus one per click the
\* Test button emitted; a request is issued only in a step that mounts the
\* page or emits a click, so never after a disconnected outcome by itself.
C12_OneRequestPerInvocation ==
    /\ [](fetches = Len(calls))
    /\ [](Len(calls) = (IF mounted THEN 1 ELSE 0) + Len(emitted))
    /\ [][fetches' # fetches =>
            /\ fetches' = fetches + 1
            /\ (mounted' # mounted \/ Len(emitted') = Len(emitted) + 1)]_vars

\* The mount probe and one re-invocation both failed; no further request was
\* issued.
C12_Witness ==
    /\ fetches = 2
    /\ mounted
    /\ emitted = <<"evtB">>
    /\ Len(settled) = 2
    /\ InFlight = {}
    /\ Shown = Disconnected

\* C13 (Spec): no failure propagates to the caller. Every call that settled
\* completed normally, and a failure of the call that settled last shows only
\* as the disconnected status and message.
C13_FailuresStayLocal ==
    /\ \A c \in 1..Len(calls) : calls[c].pc \in {"fetch", "json", "done"}
    /\ \A i \in 1..Len(settled) : calls[settled[i]].pc = "done"
    /\ IsFailure(lastSettled) =>
        /\ calls[lastSettled.id].pc = "done"
        /\ Shown = Disconnected

\* A body that did not parse settled a call, which returned normally.
C13_Witness ==
    /\ lastSettled.event = "json_rejected"
    /\ lastSettled.status = 201
    /\ calls[lastSettled.id].pc = "done"
    /\ Shown = Disconnected
    /\ ~isLoading

\* C15 (SpecButton): each handler touches only its own fields. mouseenter sets
\* hovered and nothing else, mousedown and mouseup set pressed and nothing
\* else, mouseleave leaves the notifications alone, a click changes neither
\* hovered nor pressed; no handler changes variant, size or disabled.
C15_HandlersTouchOwnFields ==
    /\ [](lastOp.op = "mouseenter" =>
            /\ isHovered
            /\ isPressed = lastOp.pre.pressed
            /\ emitted = lastOp.pre.emitted)
    /\ [](lastOp.op = "mousedown" =>
            /\ isPressed
            /\ isHovered = lastOp.pre.hovered
            /\ emitted = lastOp.pre.emitted)
    /\ [](lastOp.op = "mouseup" =>
            /\ ~isPressed
            /\ isHovered = lastOp.pre.hovered
            /\ emitted = lastOp.pre.emitted)
    /\ [](lastOp.op = "mouseleave" => emitted = lastOp.pre.emitted)
    /\ [](lastOp.op = "click" =>
            /\ isHovered = lastOp.pre.hovered
            /\ isPressed = lastOp.pre.pressed)
    /\ [](lastOp.op \in {"mouseenter", "mousedown", "mouseup", "mouseleave", "click"} =>
            disabled = lastOp.pre.disabled)
    /\ [][/\ variant' = variant
          /\ size' = size
          /\ (disabled' # disabled => lastOp'.op = "props")
          /\ (<<isHovered, isPressed>>' # <<isHovered, isPressed>> =>
                lastOp'.op \in {"mouseenter", "mousedown", "mouseup", "mouseleave"})]_vars

\* Construct(primary, md, false), enter, down, activate: one notification,
\* and the Button is still hovered and pressed.
C15_Witness ==
    /\ variant = "primary" /\ size = "md" /\ ~disabled
    /\ lastOp.op = "click"
    /\ lastOp.pre.emitted = <<>>
    /\ emitted = <<"evtA">>
    /\ isHovered /\ isPressed

\* C16 (SpecProbe), as claimed: isLoading is true in every state in which at
\* least one call is in flight.
C16_LoadingWhileAnyInFlight ==
    InFlight # {} => isLoading

\* C18 (SpecButton), as claimed: when disabled is true the class list is the
\* one of the idle disabled Button, whatever hovered and pressed are.
C18_DisabledShowsNoFeedback ==
    disabled => buttonClasses = buttonClassesOf(variant, size, TRUE, FALSE, FALSE)

\* C17 (SpecToast), as claimed: a visible toast is hidden only by the next
\* click or by the timer that the click which showed it started; and no toast
\* is visible once every pending timer has fired.
C17_ToastLivesUntilOwnTimer ==
    /\ (lastToastOp.op = "timer" /\ lastToastOp.wasShown) =>
            lastToastOp.timer = lastToastOp.shownBy
    /\ timers = <<>> => ~showToast

====
